---- MODULE Spec2Model ----
(***************************************************************************)
(* Credit-and-entitlement ledger of the Telegram search bot (src/bot.py).  *)
(*                                                                         *)
(* The state is the PostgreSQL database (tables users, searches, config),  *)
(* the wall clock, and the /live handlers that are suspended at an await.  *)
(* Every database call of the source is a blocking call, so a handler runs *)
(* atomically from one await to the next; handlers of different updates    *)
(* interleave at those awaits only.  A handler whose remaining code after  *)
(* an await touches no state is completed in the step that reaches it.     *)
(*                                                                         *)
(* Storage and delivery faults are environment choices: the INSERT of      *)
(* register_user, the UPDATE of deduct_credits, the INSERT of log_search   *)
(* and the delivery of the replies of live_search may each raise.  A write *)
(* that raises commits nothing.  The refund write of the except block is   *)
(* taken to commit.  Display columns (username, first_name, last_name)     *)
(* are never read by a decision and are left out of the rows.              *)
(* The clock counts days; datetime.now() is read once per handler.         *)
(***************************************************************************)
EXTENDS Integers, Sequences, FiniteSets, TLC

VARIABLES
    users,      \* table users: user_id -> row (absent ids are not in the domain)
    searches,   \* table searches: rows in SERIAL id order
    config,     \* table config: the TEXT value stored under 'price_per_search'
    now,        \* datetime.now(), in days
    live,       \* the /live handlers in flight, one per slot
    ncmds,      \* number of updates dispatched so far
    last        \* the last event: which handler step ran, for whom, and its reply

vars == <<users, searches, config, now, live, ncmds, last>>

----------------------------------------------------------------------------
(* Bounds of the exploration *)

MaxCmds == 4
MaxNow == 31

TickSteps == {31}
Procs == {1, 2}

----------------------------------------------------------------------------
(* Configuration (src/bot.py:22-27) *)

ADMIN_ID == 1
PRICE_PER_SEARCH == 5
INITIAL_CREDITS == 100
START_DAYS == 30

Callers == {1, 2}

----------------------------------------------------------------------------
(* Command arguments are strings; int() parses them or raises ValueError *)

IntOf ==
    ("-1" :> -1) @@ ("2" :> 2) @@ ("3" :> 3) @@ ("5" :> 5) @@ ("7" :> 7)
    @@ ("10" :> 10) @@ ("23" :> 23)

IsInt(s) == s \in DOMAIN IntOf

int(s) == IntOf[s]

str(n) == CHOOSE s \in DOMAIN IntOf : IntOf[s] = n

AllInt(args, n) == \A i \in 1..n : IsInt(args[i])

NoArgs == {<< >>}
LiveArgs == {<< >>, <<"foo">>, <<"foo", "bar">>}
AdduserArgs ==
    {<< >>, <<"2", "5">>, <<"2", "x", "7">>, <<"2", "5", "x">>,
     <<"2", "5", "7">>, <<"2", "3", "7">>, <<"2", "23", "-1">>}
RemoveuserArgs == {<< >>, <<"x">>, <<"2">>}
SetpriceArgs == {<< >>, <<"x">>, <<"3">>, <<"10">>}
AddcreditsArgs == {<< >>, <<"2">>, <<"2", "x">>, <<"x", "5">>, <<"2", "5">>}

----------------------------------------------------------------------------
(* class Database: each operator gives the table after the call *)

(* also the test "if not user" on the row db.get_user returns *)
user_exists(tbl, user_id) == user_id \in DOMAIN tbl

(* ON CONFLICT ... SET credits = users.credits + EXCLUDED.credits *)
register_user_additive(tbl, user_id, credits, days) ==
    LET expiry == now + days IN
    IF user_id \in DOMAIN tbl
    THEN [tbl EXCEPT ![user_id].credits = @ + credits,
                     ![user_id].expiry_date = expiry,
                     ![user_id].is_active = TRUE]
    ELSE tbl @@ (user_id :> [credits |-> credits,
                             expiry_date |-> expiry,
                             created_at |-> now,
                             is_active |-> TRUE])

(* the INSERT leaves credits to the column default (credits INT DEFAULT 100) *)
register_user_default_credits(tbl, user_id, credits, days) ==
    LET expiry == now + days IN
    IF user_id \in DOMAIN tbl
    THEN [tbl EXCEPT ![user_id].credits = credits,
                     ![user_id].expiry_date = expiry,
                     ![user_id].is_active = TRUE]
    ELSE tbl @@ (user_id :> [credits |-> 100,
                             expiry_date |-> expiry,
                             created_at |-> now,
                             is_active |-> TRUE])

(* the conflicting row is replaced by a freshly inserted one *)
register_user_replaces_row(tbl, user_id, credits, days) ==
    LET expiry == now + days IN
    [id \in DOMAIN tbl \cup {user_id} |->
        IF id = user_id
        THEN [credits |-> credits, expiry_date |-> expiry,
              created_at |-> now, is_active |-> TRUE]
        ELSE tbl[id]]

register_user(tbl, user_id, credits, days) ==
    LET expiry == now + days IN
    IF user_id \in DOMAIN tbl
    THEN [tbl EXCEPT ![user_id].credits = credits,
                     ![user_id].expiry_date = expiry,
                     ![user_id].is_active = TRUE]
    ELSE tbl @@ (user_id :> [credits |-> credits,
                             expiry_date |-> expiry,
                             created_at |-> now,
                             is_active |-> TRUE])

(* the debit takes the configured default instead of the amount passed *)
deduct_credits_default_price(tbl, user_id, amount) ==
    IF user_id \in DOMAIN tbl
    THEN [tbl EXCEPT ![user_id].credits = @ - PRICE_PER_SEARCH]
    ELSE tbl

deduct_credits(tbl, user_id, amount) ==
    IF user_id \in DOMAIN tbl
    THEN [tbl EXCEPT ![user_id].credits = @ - amount]
    ELSE tbl

(* the top-up also switches the account on again *)
add_credits_reactivates(tbl, user_id, amount) ==
    IF user_id \in DOMAIN tbl
    THEN [tbl EXCEPT ![user_id].credits = @ + amount,
                     ![user_id].is_active = TRUE]
    ELSE tbl

(* the top-up inserts a row when the id has none *)
add_credits_upserts(tbl, user_id, amount) ==
    IF user_id \in DOMAIN tbl
    THEN [tbl EXCEPT ![user_id].credits = @ + amount]
    ELSE tbl @@ (user_id :> [credits |-> amount,
                             expiry_date |-> now,
                             created_at |-> now,
                             is_active |-> TRUE])

add_credits(tbl, user_id, amount) ==
    IF user_id \in DOMAIN tbl
    THEN [tbl EXCEPT ![user_id].credits = @ + amount]
    ELSE tbl

(* the account is emptied when it is switched off *)
remove_user_clears_credits(tbl, user_id) ==
    IF user_id \in DOMAIN tbl
    THEN [tbl EXCEPT ![user_id].is_active = FALSE, ![user_id].credits = 0]
    ELSE tbl

remove_user(tbl, user_id) ==
    IF user_id \in DOMAIN tbl
    THEN [tbl EXCEPT ![user_id].is_active = FALSE]
    ELSE tbl

set_price(price) == str(price)

get_price == int(config)

log_search(user_id, search_term, results_count) ==
    Append(searches, [user_id |-> user_id,
                      search_term |-> search_term,
                      results_count |-> results_count,
                      credits_used |-> get_price])

----------------------------------------------------------------------------
(* Events and handler slots *)

Event(cmd, caller, args, kind, wrote) ==
    [cmd |-> cmd, caller |-> caller, args |-> args, kind |-> kind,
     wrote |-> wrote, price |-> 0, debited |-> 0, row |-> 0, n |-> 0]

LiveEvent(cmd, caller, args, kind, price, debited, row) ==
    [cmd |-> cmd, caller |-> caller, args |-> args, kind |-> kind,
     wrote |-> (row # 0), price |-> price, debited |-> debited, row |-> row,
     n |-> 0]

Idle ==
    [pc |-> "idle", user_id |-> 0, credits |-> 0, price |-> 0,
     args |-> << >>, debited |-> 0, row |-> 0]

FreeSlots == {p \in Procs : live[p].pc = "idle"}

FreeSlot == CHOOSE p \in FreeSlots : \A q \in FreeSlots : p <= q

(* ' '.join(context.args) *)
RECURSIVE join(_)
join(args) ==
    IF Len(args) = 1 THEN args[1]
    ELSE args[1] \o " " \o join(Tail(args))

(* user['credits'] as stored for user_id in table tbl *)
balance(tbl, user_id) == tbl[user_id].credits

----------------------------------------------------------------------------
(* Database.__init__ / init_db on a fresh database *)

Init ==
    /\ users = << >>
    /\ searches = << >>
    /\ config = str(PRICE_PER_SEARCH)
    /\ now = 0
    /\ live = [p \in Procs |-> Idle]
    /\ ncmds = 0
    /\ last = Event("init_db", 0, << >>, "Ready", TRUE)

----------------------------------------------------------------------------
(* /start *)

(* /start without the "if not existing_user" test, relying on the upsert *)
start_always_registers(caller, args) ==
    /\ ncmds < MaxCmds
    /\ ncmds' = ncmds + 1
    /\ \E ok \in BOOLEAN :
         /\ users' = IF ok
                     THEN register_user(users, caller, INITIAL_CREDITS, START_DAYS)
                     ELSE users
         /\ last' = Event("start", caller, args, "Welcome", ok)
    /\ UNCHANGED <<searches, config, now, live>>

start_reply(caller) ==
    IF ~users[caller].is_active THEN "Disabled"
    ELSE IF now > users[caller].expiry_date THEN "Expired"
    ELSE "WelcomeBack"

start(caller, args) ==
    /\ ncmds < MaxCmds
    /\ ncmds' = ncmds + 1
    /\ IF ~user_exists(users, caller)
       THEN \E ok \in BOOLEAN :
              /\ users' = IF ok
                          THEN register_user(users, caller, INITIAL_CREDITS, START_DAYS)
                          ELSE users
              /\ last' = Event("start", caller, args, "Welcome", ok)
       ELSE /\ UNCHANGED users
            /\ last' = Event("start", caller, args, start_reply(caller), FALSE)
    /\ UNCHANGED <<searches, config, now, live>>

----------------------------------------------------------------------------
(* /live: the checks, up to the await of the "Buscando" reply *)

(* the expiry test placed before the is_active test *)
live_check_expiry_first(caller, args) ==
    IF ~user_exists(users, caller) THEN "NotRegistered"
    ELSE IF now > users[caller].expiry_date THEN "Expired"
    ELSE IF ~users[caller].is_active THEN "Disabled"
    ELSE IF users[caller].credits < get_price THEN "InsufficientCredits"
    ELSE IF args = << >> THEN "BadArguments"
    ELSE "OK"

(* the balance test left out *)
live_check_no_balance_test(caller, args) ==
    IF ~user_exists(users, caller) THEN "NotRegistered"
    ELSE IF ~users[caller].is_active THEN "Disabled"
    ELSE IF now > users[caller].expiry_date THEN "Expired"
    ELSE IF args = << >> THEN "BadArguments"
    ELSE "OK"

live_check(caller, args) ==
    IF ~user_exists(users, caller) THEN "NotRegistered"
    ELSE IF ~users[caller].is_active THEN "Disabled"
    ELSE IF now > users[caller].expiry_date THEN "Expired"
    ELSE IF users[caller].credits < get_price THEN "InsufficientCredits"
    ELSE IF args = << >> THEN "BadArguments"
    ELSE "OK"

live_search(caller, args) ==
    /\ ncmds < MaxCmds
    /\ ncmds' = ncmds + 1
    /\ LET kind == live_check(caller, args) IN
       IF kind # "OK"
       THEN /\ last' = LiveEvent("live", caller, args, kind, 0, 0, 0)
            /\ UNCHANGED live
       ELSE /\ FreeSlots # {}
            /\ \E sent \in BOOLEAN :
                 IF sent
                 THEN /\ live' = [live EXCEPT ![FreeSlot] =
                                    [pc |-> "searching",
                                     user_id |-> caller,
                                     credits |-> users[caller].credits,
                                     price |-> get_price,
                                     args |-> args,
                                     debited |-> 0,
                                     row |-> 0]]
                      /\ last' = LiveEvent("live", caller, args, "Searching",
                                           get_price, 0, 0)
                 ELSE /\ UNCHANGED live
                      /\ last' = LiveEvent("live", caller, args, "Crashed",
                                           get_price, 0, 0)
    /\ UNCHANGED <<users, searches, config, now>>

(* /live: the try block, from the resumption after "Buscando" up to the    *)
(* await of the result reply.  A write that raises runs the except block:  *)
(* add_credits(user_id, price), whether or not the debit was committed.    *)
(* debited is the amount the handler has taken from the stored balance so  *)
(* far, row the SERIAL id of the searches row it inserted (0: none).       *)
live_charge(p) ==
    /\ live[p].pc = "searching"
    /\ \E deduct_ok, log_ok \in BOOLEAN :
         LET h == live[p]
             debit == IF deduct_ok
                      THEN deduct_credits(users, h.user_id, h.price)
                      ELSE users
             logged == deduct_ok /\ log_ok
             after == IF logged THEN debit
                      ELSE add_credits(debit, h.user_id, h.price)
             taken == balance(users, h.user_id) - balance(after, h.user_id)
             row == IF logged THEN Len(searches) + 1 ELSE 0
         IN /\ users' = after
            /\ searches' = IF logged
                           THEN log_search(h.user_id, join(h.args), 0)
                           ELSE searches
            /\ live' = [live EXCEPT ![p] =
                          IF logged
                          THEN [h EXCEPT !.pc = "replying", !.debited = taken,
                                         !.row = row]
                          ELSE Idle]
            /\ last' = LiveEvent("live_charge", h.user_id, h.args,
                                 IF logged THEN "Charged" ELSE "ActionFailed",
                                 h.price, taken, row)
    /\ UNCHANGED <<config, now, ncmds>>

(* /live: the result reply is delivered and the handler returns, or the    *)
(* await raises into the except block, which refunds                       *)
live_reply(p) ==
    /\ live[p].pc = "replying"
    /\ \E delivered \in BOOLEAN :
         LET h == live[p]
             after == IF delivered THEN users
                      ELSE add_credits(users, h.user_id, h.price)
             taken == h.debited
                      + balance(users, h.user_id) - balance(after, h.user_id)
         IN /\ users' = after
            /\ last' = LiveEvent("live_reply", h.user_id, h.args,
                                 IF delivered THEN "Completed" ELSE "ActionFailed",
                                 h.price, taken, h.row)
    /\ live' = [live EXCEPT ![p] = Idle]
    /\ UNCHANGED <<searches, config, now, ncmds>>

----------------------------------------------------------------------------
(* /cmds, /creditos, /perfil: read-only *)

cmds(caller, args) ==
    /\ ncmds < MaxCmds
    /\ ncmds' = ncmds + 1
    /\ last' = Event("cmds", caller, args,
                     IF ~user_exists(users, caller) THEN "NotRegistered"
                     ELSE "Commands", FALSE)
    /\ UNCHANGED <<users, searches, config, now, live>>

(* user['credits'] // price, rounded up instead of down *)
searches_available_rounded_up(credits, price) ==
    (credits + price - 1) \div price

(* user['credits'] // price (line 350) *)
searches_available(credits, price) == credits \div price

(* n is the "Busquedas disponibles" count of the reply; a stored price of 0 *)
(* raises ZeroDivisionError                                                *)
creditos(caller, args) ==
    /\ ncmds < MaxCmds
    /\ ncmds' = ncmds + 1
    /\ last' = IF ~user_exists(users, caller)
               THEN Event("creditos", caller, args, "NotRegistered", FALSE)
               ELSE IF get_price = 0
               THEN Event("creditos", caller, args, "Crashed", FALSE)
               ELSE [Event("creditos", caller, args, "Credits", FALSE)
                       EXCEPT !.n = searches_available(users[caller].credits,
                                                       get_price)]
    /\ UNCHANGED <<users, searches, config, now, live>>

perfil(caller, args) ==
    /\ ncmds < MaxCmds
    /\ ncmds' = ncmds + 1
    /\ last' = Event("perfil", caller, args,
                     IF ~user_exists(users, caller) THEN "NotRegistered"
                     ELSE "Profile", FALSE)
    /\ UNCHANGED <<users, searches, config, now, live>>

----------------------------------------------------------------------------
(* Admin commands *)

(* /adduser that falls back to 30 days when the third argument is no number *)
adduser_default_days(caller, args) ==
    /\ ncmds < MaxCmds
    /\ ncmds' = ncmds + 1
    /\ IF caller # ADMIN_ID
       THEN /\ last' = Event("adduser", caller, args, "Forbidden", FALSE)
            /\ UNCHANGED users
       ELSE IF Len(args) < 3 \/ ~AllInt(args, 2)
       THEN /\ last' = Event("adduser", caller, args, "BadArguments", FALSE)
            /\ UNCHANGED users
       ELSE \E ok \in BOOLEAN :
              /\ users' = IF ok
                          THEN register_user(users, int(args[1]), int(args[2]),
                                             IF IsInt(args[3]) THEN int(args[3])
                                             ELSE START_DAYS)
                          ELSE users
              /\ last' = Event("adduser", caller, args,
                               IF IsInt(args[3]) THEN "UserAdded"
                               ELSE "BadArguments", ok)
    /\ UNCHANGED <<searches, config, now, live>>

adduser(caller, args) ==
    /\ ncmds < MaxCmds
    /\ ncmds' = ncmds + 1
    /\ IF caller # ADMIN_ID
       THEN /\ last' = Event("adduser", caller, args, "Forbidden", FALSE)
            /\ UNCHANGED users
       ELSE IF Len(args) < 3 \/ ~AllInt(args, 3)
       THEN /\ last' = Event("adduser", caller, args, "BadArguments", FALSE)
            /\ UNCHANGED users
       ELSE \E ok \in BOOLEAN :
              /\ users' = IF ok
                          THEN register_user(users, int(args[1]), int(args[2]),
                                             int(args[3]))
                          ELSE users
              /\ last' = Event("adduser", caller, args, "UserAdded", ok)
    /\ UNCHANGED <<searches, config, now, live>>

removeuser(caller, args) ==
    /\ ncmds < MaxCmds
    /\ ncmds' = ncmds + 1
    /\ IF caller # ADMIN_ID
       THEN /\ last' = Event("removeuser", caller, args, "Forbidden", FALSE)
            /\ UNCHANGED users
       ELSE IF args = << >> \/ ~IsInt(args[1])
       THEN /\ last' = Event("removeuser", caller, args, "BadArguments", FALSE)
            /\ UNCHANGED users
       ELSE /\ users' = remove_user(users, int(args[1]))
            /\ last' = Event("removeuser", caller, args, "UserRemoved", TRUE)
    /\ UNCHANGED <<searches, config, now, live>>

(* /setprice without the ADMIN_ID test *)
setprice_any_caller(caller, args) ==
    /\ ncmds < MaxCmds
    /\ ncmds' = ncmds + 1
    /\ IF args = << >> \/ ~IsInt(args[1])
       THEN /\ last' = Event("setprice", caller, args, "BadArguments", FALSE)
            /\ UNCHANGED config
       ELSE /\ config' = set_price(int(args[1]))
            /\ last' = Event("setprice", caller, args, "PriceUpdated", TRUE)
    /\ UNCHANGED <<users, searches, now, live>>

setprice(caller, args) ==
    /\ ncmds < MaxCmds
    /\ ncmds' = ncmds + 1
    /\ IF caller # ADMIN_ID
       THEN /\ last' = Event("setprice", caller, args, "Forbidden", FALSE)
            /\ UNCHANGED config
       ELSE IF args = << >> \/ ~IsInt(args[1])
       THEN /\ last' = Event("setprice", caller, args, "BadArguments", FALSE)
            /\ UNCHANGED config
       ELSE /\ config' = set_price(int(args[1]))
            /\ last' = Event("setprice", caller, args, "PriceUpdated", TRUE)
    /\ UNCHANGED <<users, searches, now, live>>

addcredits(caller, args) ==
    /\ ncmds < MaxCmds
    /\ ncmds' = ncmds + 1
    /\ IF caller # ADMIN_ID
       THEN /\ last' = Event("addcredits", caller, args, "Forbidden", FALSE)
            /\ UNCHANGED users
       ELSE IF Len(args) < 2 \/ ~AllInt(args, 2)
       THEN /\ last' = Event("addcredits", caller, args, "BadArguments", FALSE)
            /\ UNCHANGED users
       ELSE /\ users' = add_credits(users, int(args[1]), int(args[2]))
            /\ last' = Event("addcredits", caller, args,
                             IF user_exists(users, int(args[1]))
                             THEN "CreditsAdded" ELSE "Crashed", TRUE)
    /\ UNCHANGED <<searches, config, now, live>>

stats(caller, args) ==
    /\ ncmds < MaxCmds
    /\ ncmds' = ncmds + 1
    /\ last' = Event("stats", caller, args,
                     IF caller # ADMIN_ID THEN "Forbidden" ELSE "Stats", FALSE)
    /\ UNCHANGED <<users, searches, config, now, live>>

----------------------------------------------------------------------------
(* The process is started again on the existing database: init_db runs,    *)
(* and the handlers that were in flight are gone                           *)

init_db ==
    /\ config' = str(PRICE_PER_SEARCH)
    /\ live' = [p \in Procs |-> Idle]
    /\ last' = Event("init_db", 0, << >>, "Ready", TRUE)
    /\ UNCHANGED <<users, searches, now, ncmds>>

----------------------------------------------------------------------------

(* The clock is in days and a suspension lasts a network round trip: time   *)
(* advances between updates, not while a handler is in flight              *)
Tick(d) ==
    /\ now + d <= MaxNow
    /\ \A p \in Procs : live[p].pc = "idle"
    /\ now' = now + d
    /\ last' = Event("tick", 0, << >>, "Tick", FALSE)
    /\ UNCHANGED <<users, searches, config, live, ncmds>>

Next ==
    \/ \E c \in Callers, a \in NoArgs : start(c, a)
    \/ \E c \in Callers, a \in LiveArgs : live_search(c, a)
    \/ \E c \in Callers, a \in NoArgs : cmds(c, a)
    \/ \E c \in Callers, a \in NoArgs : creditos(c, a)
    \/ \E c \in Callers, a \in NoArgs : perfil(c, a)
    \/ \E c \in Callers, a \in AdduserArgs : adduser(c, a)
    \/ \E c \in Callers, a \in RemoveuserArgs : removeuser(c, a)
    \/ \E c \in Callers, a \in SetpriceArgs : setprice(c, a)
    \/ \E c \in Callers, a \in AddcreditsArgs : addcredits(c, a)
    \/ \E c \in Callers, a \in NoArgs : stats(c, a)
    \/ init_db
    \/ \E p \in Procs : live_charge(p)
    \/ \E p \in Procs : live_reply(p)
    \/ \E d \in TickSteps : Tick(d)

Spec == Init /\ [][Next]_vars

----------------------------------------------------------------------------
(* Steps of /live, told apart by the event they leave *)

Charged == last.cmd = "live_charge" /\ last.kind = "Charged"

Succeeded == last.cmd = "live_reply" /\ last.kind = "Completed"

Failed ==
    last.cmd \in {"live_charge", "live_reply"} /\ last.kind = "ActionFailed"

(* C1: a /live that debits and logs (and one that then delivers its result) *)
(* has taken exactly the price it checked from the stored balance and has   *)
(* inserted one searches row, for the caller, whose credits_used is the     *)
(* amount taken -- also when /setprice ran while the handler was suspended. *)
C1_SuccessDebitsAndLogsPrice ==
    (Charged \/ Succeeded) =>
        /\ last.debited = last.price
        /\ last.row \in 1..Len(searches)
        /\ searches[last.row].user_id = last.caller
        /\ searches[last.row].credits_used = last.debited

(* C1, the half the code keeps: the balance and the row's owner *)
C1_SuccessDebitsPrice ==
    (Charged \/ Succeeded) =>
        /\ last.debited = last.price
        /\ last.row \in 1..Len(searches)
        /\ searches[last.row].user_id = last.caller

C1_SetpriceInFlight ==
    /\ Succeeded
    /\ last.debited = last.price
    /\ searches[last.row].credits_used # last.debited

(* C2: a /live whose try block fails (the debit write, the log write or the *)
(* delivery of the result raises) has taken nothing from the stored balance *)
(* and has inserted no searches row.                                        *)
C2_FailureRestoresBalanceAndLogsNothing ==
    Failed => (last.debited = 0 /\ last.row = 0)

C2_FailedAfterLog ==
    /\ Failed
    /\ last.row # 0
    /\ last.debited = 0
    /\ searches[last.row].user_id = last.caller

(* C3: of two /live handlers of one account that both passed their checks   *)
(* on a balance equal to the price, the second commits its debit only if    *)
(* the balance was replenished meanwhile: after it the stored balance is    *)
(* not negative.  Otherwise it had to be rejected.                          *)
C3_AtMostOneOfTwoSucceeds ==
    \A p, q \in Procs :
        ( /\ p # q
          /\ Charged
          /\ live[p].pc = "replying" /\ live[q].pc = "replying"
          /\ live[p].user_id = last.caller /\ live[q].user_id = last.caller
          /\ live[p].credits = live[p].price /\ live[q].credits = live[q].price
          /\ live[p].price = live[q].price )
        => users[last.caller].credits >= 0

C3_BothCharged ==
    /\ Charged
    /\ \A p \in Procs : /\ live[p].pc = "replying"
                        /\ live[p].user_id = last.caller
                        /\ live[p].credits = live[p].price
    /\ users[last.caller].credits < 0

(* C4: when a /live commits its debit the account is registered, active,    *)
(* not expired and holds at least the amount debited, and the searches row  *)
(* is written only with the debit committed.                                *)
C4_DebitOnlyWhenEligibleAndFunded ==
    Charged =>
        /\ last.caller \in DOMAIN users
        /\ users[last.caller].is_active
        /\ now <= users[last.caller].expiry_date
        /\ users[last.caller].credits + last.debited >= last.debited
        /\ last.debited = last.price

C4_ChargedWhileDisabled ==
    /\ Charged
    /\ ~users[last.caller].is_active
    /\ last.debited = last.price

(* C4, the half the code keeps: no searches row without a committed debit *)
C4_LogOnlyAfterDebit ==
    (last.cmd \in {"live_charge", "live_reply"} /\ last.row # 0) =>
        \/ last.debited = last.price
        \/ (last.kind = "ActionFailed" /\ last.debited = 0)

----------------------------------------------------------------------------

Eligible(user_id) ==
    /\ user_id \in DOMAIN users
    /\ users[user_id].is_active
    /\ now <= users[user_id].expiry_date

(* C5: a /live from a registered caller whose stored balance is below the   *)
(* stored price is rejected -- as InsufficientCredits when the account is   *)
(* active and unexpired -- and changes nothing: tables unchanged, no       *)
(* handler left in flight, so neither deduct_credits nor log_search runs.   *)
C5_Step ==
    ( /\ last'.cmd = "live"
      /\ last'.caller \in DOMAIN users
      /\ users[last'.caller].credits < get_price )
    => /\ last'.kind \in {"Disabled", "Expired", "InsufficientCredits"}
       /\ Eligible(last'.caller) => last'.kind = "InsufficientCredits"
       /\ last'.debited = 0 /\ last'.row = 0
       /\ UNCHANGED <<users, searches, config, live>>

C5_UnderfundedLiveRejectedUnchanged == [][C5_Step]_vars

C5_Witness ==
    /\ last.cmd = "live"
    /\ last.kind = "InsufficientCredits"
    /\ last.args = <<"foo">>
    /\ users[last.caller].credits = 3
    /\ get_price = 5

(* C6: /live answers NotRegistered to a caller without a row; /live and     *)
(* /start answer Disabled to an account that is inactive, expired or not,   *)
(* and Expired only to an active account past its expiry_date.              *)
C6_EligibilityOrder ==
    /\ (last.cmd = "live" /\ last.caller \notin DOMAIN users)
         => last.kind = "NotRegistered"
    /\ (last.cmd \in {"live", "start"} /\ last.caller \in DOMAIN users
          /\ ~last.wrote)
         => /\ ~users[last.caller].is_active => last.kind = "Disabled"
            /\ (users[last.caller].is_active
                  /\ now > users[last.caller].expiry_date)
                 => last.kind = "Expired"
            /\ last.kind \in {"Disabled", "Expired"} => ~Eligible(last.caller)

C6_Witness ==
    /\ last.cmd = "live"
    /\ last.kind = "Disabled"
    /\ ~users[last.caller].is_active
    /\ now > users[last.caller].expiry_date

(* C7: /adduser for an id that already has a row, when its write commits,   *)
(* leaves credits = c, expiry_date = now + d and is_active = TRUE, whatever *)
(* the row held before.                                                     *)
C7_Step ==
    ( /\ last'.cmd = "adduser"
      /\ last'.wrote
      /\ int(last'.args[1]) \in DOMAIN users )
    => LET id == int(last'.args[1]) IN
       /\ users'[id].credits = int(last'.args[2])
       /\ users'[id].expiry_date = now + int(last'.args[3])
       /\ users'[id].is_active = TRUE

C7_ReRegisterOverwrites == [][C7_Step]_vars

C7_Witness ==
    /\ last.cmd = "adduser"
    /\ last.wrote
    /\ last.args = <<"2", "3", "7">>
    /\ users[2].credits = 3
    /\ \E i \in 1..Len(searches) : searches[i].user_id = 2

(* C8: /start of a caller without a row and /adduser id c d for an id       *)
(* without a row, when the write commits, create the row with credits 100,  *)
(* expiry_date now + 30 (resp. c and now + d) and is_active = TRUE.         *)
C8_Step ==
    /\ ( /\ last'.cmd = "start"
         /\ last'.wrote
         /\ last'.caller \notin DOMAIN users )
       => /\ last'.caller \in DOMAIN users'
          /\ users'[last'.caller].credits = 100
          /\ users'[last'.caller].expiry_date = now + 30
          /\ users'[last'.caller].is_active = TRUE
    /\ ( /\ last'.cmd = "adduser"
         /\ last'.wrote
         /\ int(last'.args[1]) \notin DOMAIN users )
       => LET id == int(last'.args[1]) IN
          /\ id \in DOMAIN users'
          /\ users'[id].credits = int(last'.args[2])
          /\ users'[id].expiry_date = now + int(last'.args[3])
          /\ users'[id].is_active = TRUE

C8_RegistrationCreatesGrantedValues == [][C8_Step]_vars

C8_Witness ==
    /\ last.cmd = "adduser"
    /\ last.wrote
    /\ last.args = <<"2", "5", "7">>
    /\ users[2].created_at = now
    /\ 1 \in DOMAIN users
    /\ users[1].credits = 100

(* C9: /start of a caller that has a row leaves the users table as it is *)
C9_Step ==
    (last'.cmd = "start" /\ last'.caller \in DOMAIN users)
    => /\ UNCHANGED <<users, searches, config, live>>
       /\ last'.kind \in {"WelcomeBack", "Disabled", "Expired"}

C9_StartNeverReRegisters == [][C9_Step]_vars

C9_Witness ==
    /\ last.cmd = "start"
    /\ last.kind = "Disabled"
    /\ ~users[last.caller].is_active

(* C10: /adduser, /removeuser, /setprice, /addcredits and /stats from a     *)
(* caller other than ADMIN_ID answer Forbidden and leave users, searches    *)
(* and config unchanged, whatever the arguments.                            *)
AdminCommands == {"adduser", "removeuser", "setprice", "addcredits", "stats"}

C10_Step ==
    (last'.cmd \in AdminCommands /\ last'.caller # ADMIN_ID)
    => /\ last'.kind = "Forbidden"
       /\ UNCHANGED <<users, searches, config, live>>

C10_NonAdminForbidden == [][C10_Step]_vars

C10_Witness ==
    /\ last.cmd = "setprice"
    /\ last.caller # ADMIN_ID
    /\ last.args = <<"10">>
    /\ last.kind = "Forbidden"
    /\ config = "5"

----------------------------------------------------------------------------

(* Whether the argument list of an admin command has the shape its handler  *)
(* requires: enough arguments, each numeric one a number                    *)
WellShaped(cmd, args) ==
    CASE cmd = "adduser" -> Len(args) >= 3 /\ AllInt(args, 3)
      [] cmd = "addcredits" -> Len(args) >= 2 /\ AllInt(args, 2)
      [] cmd \in {"removeuser", "setprice"} -> Len(args) >= 1 /\ AllInt(args, 1)
      [] OTHER -> TRUE

(* C11: /adduser, /removeuser, /setprice and /addcredits from the admin     *)
(* with too few arguments or a non-numeric argument answer BadArguments and *)
(* write nothing (no partial update); a /live without a term writes nothing *)
(* and leaves no handler in flight.                                         *)
C11_Step ==
    /\ ( /\ last'.cmd \in {"adduser", "removeuser", "setprice", "addcredits"}
         /\ last'.caller = ADMIN_ID
         /\ ~WellShaped(last'.cmd, last'.args) )
       => /\ last'.kind = "BadArguments"
          /\ UNCHANGED <<users, searches, config, live>>
    /\ (last'.cmd = "live" /\ last'.args = << >>)
       => /\ last'.kind # "Searching"
          /\ UNCHANGED <<users, searches, config, live>>

----------------------------------------------------------------------------

(* C12 as claimed: a debit that commits takes the price stored at that      *)
(* moment, which is v from the completion of /setprice v until the price    *)
(* setting is written again -- also when that /setprice ran while the       *)
(* handler was suspended between its checks and its debit.                  *)
C12_DebitIsStoredPriceAtDebit ==
    Charged => last.debited = int(config)

(* C12 as amended: a /live takes from the balance the price that was stored *)
(* when it ran its checks.  The handler keeps that price while suspended,   *)
(* whatever is written to the price setting meanwhile, and /creditos, which *)
(* shows a price, leaves nothing behind that a later charge could read.     *)
C12_Step ==
    /\ \A p \in Procs :
         /\ (live[p].pc = "idle" /\ live'[p].pc = "searching")
              => live'[p].price = int(config)
         /\ (live[p].pc = "searching" /\ live'[p].pc = "searching")
              => live'[p].price = live[p].price
         /\ (live[p].pc = "searching" /\ live'[p].pc = "replying")
              => /\ balance(users, live[p].user_id)
                      - balance(users', live[p].user_id) = live[p].price
                 /\ last'.debited = live[p].price
    /\ last'.cmd = "creditos" => UNCHANGED <<users, searches, config, live>>

C12_DebitIsPriceAtChecks == [][C12_Step]_vars

C12_Witness ==
    /\ Charged
    /\ last.debited = 10
    /\ config = "3"
    /\ users[last.caller].credits = 90

----------------------------------------------------------------------------

(* C13: the stored price changes only in a step of /setprice; in            *)
(* particular init_db run again on an initialized database keeps it.        *)
C13_Step == config' # config => last'.cmd = "setprice"

C13_PriceChangesOnlyBySetprice == [][C13_Step]_vars

(* a price of 10 was set and charged, and after the restart it is 5 again *)
C13_PriceLostOnRestart ==
    /\ last.cmd = "init_db"
    /\ config = "5"
    /\ Len(searches) = 1
    /\ searches[1].credits_used = 10
    /\ users[searches[1].user_id].credits = 90

----------------------------------------------------------------------------

(* C14: an account that is inactive becomes active again only in a step of  *)
(* the admin's /adduser for its id; until then a /live it begins is         *)
(* answered Disabled, writes nothing and leaves no handler in flight.       *)
C14_Step ==
    \A id \in DOMAIN users :
        ~users[id].is_active =>
            /\ users'[id].is_active
                 => /\ last'.cmd = "adduser"
                    /\ last'.caller = ADMIN_ID
                    /\ int(last'.args[1]) = id
            /\ (last'.cmd = "live" /\ last'.caller = id)
                 => /\ last'.kind = "Disabled"
                    /\ UNCHANGED <<users, searches, config, live>>

C14_DisabledUntilReRegistered == [][C14_Step]_vars

C14_Witness ==
    /\ last.cmd = "live"
    /\ last.caller = 2
    /\ last.kind = "Disabled"
    /\ users[2].credits = 10
    /\ users[2].expiry_date > now

(* C15: the admin's /addcredits id n adds exactly n to the balance of an    *)
(* existing account, and /removeuser id sets is_active to FALSE, whether    *)
(* the account is active, disabled or expired; each leaves the account's    *)
(* other columns and every other row as they are.                           *)
C15_Step ==
    /\ ( /\ last'.cmd = "addcredits"
         /\ last'.wrote
         /\ int(last'.args[1]) \in DOMAIN users )
       => LET id == int(last'.args[1]) IN
          users' = [users EXCEPT ![id].credits = @ + int(last'.args[2])]
    /\ ( /\ last'.cmd = "removeuser"
         /\ last'.wrote
         /\ int(last'.args[1]) \in DOMAIN users )
       => LET id == int(last'.args[1]) IN
          users' = [users EXCEPT ![id].is_active = FALSE]

C15_AdminMutationsUnconditional == [][C15_Step]_vars

C15_Witness ==
    /\ last.cmd = "removeuser"
    /\ last.wrote
    /\ 2 \in DOMAIN users
    /\ ~users[2].is_active
    /\ now > users[2].expiry_date
    /\ users[2].credits = 28

(* C16: the count /creditos shows is floor(credits / price) for every       *)
(* non-negative balance and positive price, computed with the price stored  *)
(* when the command runs: n * price <= credits < (n + 1) * price.           *)
C16_QuoteIsFloorOfCreditsByPrice ==
    ( /\ last.cmd = "creditos"
      /\ last.kind = "Credits"
      /\ users[last.caller].credits >= 0
      /\ int(config) > 0 )
    => /\ last.n * int(config) <= users[last.caller].credits
       /\ users[last.caller].credits < (last.n + 1) * int(config)

C16_Witness ==
    /\ last.cmd = "creditos"
    /\ last.kind = "Credits"
    /\ users[last.caller].credits = 23
    /\ config = "5"
    /\ last.n = 4

(* C17: a registration whose storage write failed leaves the users table    *)
(* unchanged, and /start and /adduser then do not answer with the message   *)
(* of a created or renewed account.                                         *)
C17_Step ==
    ( /\ last'.cmd \in {"start", "adduser"}
      /\ ~last'.wrote )
    => /\ users' = users
       /\ last'.kind \notin {"Welcome", "UserAdded"}

C17_FailedRegistrationIsSurfaced == [][C17_Step]_vars

(* the half of C17 about the table alone, which the code keeps *)
C17_FailedRegistrationLeavesTable ==
    [][(last'.cmd \in {"start", "adduser"} /\ ~last'.wrote) => users' = users]_vars

C17_WelcomeWithoutAccount ==
    /\ last.cmd = "start"
    /\ last.kind = "Welcome"
    /\ ~last.wrote
    /\ last.caller \notin DOMAIN users

(* C18: a /live with no search term is answered BadArguments whatever the   *)
(* caller's state is (unregistered, disabled, expired or underfunded).      *)
C18_EmptyLiveIsBadArguments ==
    (last.cmd = "live" /\ last.args = << >>) => last.kind = "BadArguments"

C18_EmptyLiveNotRegistered ==
    /\ last.cmd = "live"
    /\ last.args = << >>
    /\ last.kind = "NotRegistered"
    /\ last.caller \notin DOMAIN users

(* C19: the searches log is append-only and holds successful charges only:  *)
(* a step leaves it as it is or appends one row, written by a /live that    *)
(* committed its debit for the row's account in that step, and a /live that *)
(* ends in failure leaves no row of its own in the log.                     *)
C19_AppendStep ==
    \/ searches' = searches
    \/ /\ Len(searches') = Len(searches) + 1
       /\ SubSeq(searches', 1, Len(searches)) = searches
       /\ last'.cmd = "live_charge"
       /\ last'.kind = "Charged"
       /\ searches'[Len(searches')].user_id = last'.caller
       /\ last'.debited = last'.price
       /\ balance(users, last'.caller) - balance(users', last'.caller)
            = last'.price

C19_Step ==
    /\ C19_AppendStep
    /\ ( /\ last'.cmd \in {"live_charge", "live_reply"}
         /\ last'.kind = "ActionFailed" )
       => last'.row = 0

C19_LogHoldsSuccessfulChargesOnly == [][C19_Step]_vars

(* the half of C19 the code keeps: append-only, each row written together   *)
(* with a committed debit                                                   *)
C19_LogAppendOnly == [][C19_AppendStep]_vars

C19_RowOfRefundedCommand ==
    /\ last.cmd = "live_reply"
    /\ last.kind = "ActionFailed"
    /\ Len(searches) = 1
    /\ last.row = 1
    /\ users[last.caller].credits = INITIAL_CREDITS
    /\ \A p \in Procs : live[p].pc = "idle"

(* C20: an account, once it exists, exists in every later state and its     *)
(* created_at never changes, also across /removeuser and a re-registration  *)
(* by /adduser.                                                             *)
C20_Step ==
    \A id \in DOMAIN users :
        /\ id \in DOMAIN users'
        /\ users'[id].created_at = users[id].created_at

C20_AccountsKeptAndCreatedAtFixed == [][C20_Step]_vars

C20_Witness ==
    /\ last.cmd = "adduser"
    /\ last.wrote
    /\ 2 \in DOMAIN users
    /\ users[2].is_active
    /\ users[2].created_at = 0
    /\ now = MaxNow

(* C21: an id gets a users row only in a step of /start sent by that id or  *)
(* of the admin's /adduser for that id; /live, /creditos, /perfil and /cmds *)
(* by an unregistered caller, and the admin's /addcredits or /removeuser    *)
(* aimed at an unregistered id, leave the users table unchanged.            *)
C21_Step ==
    /\ \A id \in (DOMAIN users') \ (DOMAIN users) :
         \/ last'.cmd = "start" /\ last'.caller = id
         \/ /\ last'.cmd = "adduser"
            /\ last'.caller = ADMIN_ID
            /\ int(last'.args[1]) = id
    /\ ( /\ last'.cmd \in {"live", "creditos", "perfil", "cmds"}
         /\ last'.caller \notin DOMAIN users )
       => users' = users
    /\ ( /\ last'.cmd \in {"addcredits", "removeuser"}
         /\ last'.caller = ADMIN_ID
         /\ WellShaped(last'.cmd, last'.args)
         /\ int(last'.args[1]) \notin DOMAIN users )
       => users' = users

C21_AccountsOnlyByStartOrAdduser == [][C21_Step]_vars

C21_Witness ==
    /\ last.cmd = "addcredits"
    /\ last.caller = ADMIN_ID
    /\ last.args = <<"2", "5">>
    /\ last.wrote
    /\ 2 \notin DOMAIN users

(* C22: a /live never leaves its account with more than the command found:  *)
(* whatever step of it fails, the debit write included, what its own writes *)
(* took from the stored balance in total is not negative.                   *)
C22_NoRefundWithoutDebit ==
    last.cmd \in {"live_charge", "live_reply"} => last.debited >= 0

C22_RefundOfFailedDebit ==
    /\ last.cmd = "live_charge"
    /\ last.kind = "ActionFailed"
    /\ last.debited = 0 - PRICE_PER_SEARCH
    /\ ncmds = 2
    /\ users[last.caller].credits = INITIAL_CREDITS + PRICE_PER_SEARCH
    /\ searches = << >>

====
